---- MODULE Spec2Model ----
(***************************************************************************)
(* EntropySeed: seed-derived authenticated encryption.                     *)
(*                                                                         *)
(*   src/ABB.py           coordinate seed -> SHA-256 -> HKDF -> AES-GCM,   *)
(*                        package = salt || nonce || sealed                *)
(*   src/GVEMPlus/ABB.py  simulator: capture -> measurement pool -> key,   *)
(*                        phrase -> AES-GCM -> base64, DECRYPT button      *)
(*                                                                         *)
(* Bytes are integers 0..255 and byte strings are sequences of them.       *)
(* SHA-256 and HKDF are collision free: their values are terms over their  *)
(* inputs. AES-GCM is the ideal AEAD: sealing records (key, nonce, aad,    *)
(* ct, pt) in a table and yields unpredictable bytes, opening succeeds     *)
(* exactly on a recorded (key, nonce, aad, ct).                            *)
(***************************************************************************)
EXTENDS Integers, Sequences, FiniteSets, TLC

VARIABLES
    \* ---- src/ABB.py
    enc,        \* the encrypt_with_coords call: arguments, salt and nonce drawn, outcome
    packaged,   \* the bytes encrypt_with_coords returned
    dec,        \* the last decrypt_with_coords call: arguments and outcome
    \* ---- the AEAD table (both programs)
    oracle,
    \* ---- src/GVEMPlus/ABB.py (module-level globals)
    running, state, typed_text,
    derived_key, ciphertext_b64, nonce, plaintext_hash_hex, raw_pool_sample,
    \* ---- src/GVEMPlus/ABB.py: environment and observations
    contours,       \* what cv2.findContours returned at the capture
    printed,        \* what the last DECRYPT click printed
    phrase_entered, \* the phrase handed to encrypt_phrase
    key_at_encrypt, \* derived_key as encrypt_phrase read it
    derivations     \* number of key derivations so far

coordVars == <<enc, packaged, dec>>
simVars == <<running, state, typed_text, derived_key, ciphertext_b64,
             nonce, plaintext_hash_hex, raw_pool_sample, contours, printed,
             phrase_entered, key_at_encrypt, derivations>>
vars == <<enc, packaged, dec, oracle, running, state, typed_text,
          derived_key, ciphertext_b64, nonce, plaintext_hash_hex, raw_pool_sample,
          contours, printed, phrase_entered, key_at_encrypt, derivations>>

(***************************************************************************)
(* Bounds of the model.                                                    *)
(***************************************************************************)
\* number of distinct values each random draw (os.urandom, random.randint,
\* the sealed bytes) ranges over: in Spec, and in the other specifications
NumDraws == 2
FewDraws == 1
\* plaintexts are b"hello" repeated and cut to each length up to this one
MaxPlainLen == 5
\* contours found by one capture (pool encoding)
MaxContours == 130
\* characters typed into a text field of the simulator
MaxTyped == 2

(***************************************************************************)
(* Byte strings.                                                           *)
(***************************************************************************)
Min(a, b) == IF a < b THEN a ELSE b

\* The k-th value of an n-byte random draw.
ByteString(n, k) == [i \in 1..n |-> (k * 67 + i * 29) % 256]

Draws(n, d) == {ByteString(n, k) : k \in 1..d}

\* Python's s[a:b] for 0 <= a <= b, clipped to the length of s.
Slice(s, a, b) == SubSeq(s, a + 1, Min(b, Len(s)))

\* Python's s[a:].
SliceFrom(s, a) == SubSeq(s, a + 1, Len(s))

RECURSIVE Pow(_, _)
Pow(b, e) == IF e = 0 THEN 1 ELSE b * Pow(b, e - 1)

\* byte b with bit i (0 = least significant) flipped
FlipBitOfByte(b, i) == IF (b \div Pow(2, i)) % 2 = 1 THEN b - Pow(2, i) ELSE b + Pow(2, i)

\* s with bit i of its j-th byte flipped
FlipBit(s, j, i) == [s EXCEPT ![j] = FlipBitOfByte(s[j], i)]

Hello == <<104, 101, 108, 108, 111>>
Header == <<104, 101, 97, 100, 101, 114>>

Plaintexts == {[i \in 1..n |-> Hello[((i - 1) % 5) + 1]] : n \in 0..MaxPlainLen}
AADs == {<< >>, Header}

(***************************************************************************)
(* src/ABB.py: coordinates.                                                *)
(* A coordinate component is a decimal with seven fractional digits,       *)
(* sign * (mag6 + d7/10) * 10^-6, or a float that is not one: NaN, an      *)
(* infinity, or a finite value whose scaled integer leaves 64 bits         *)
(* ("huge": |x| * 10^6 >= 2^63).                                           *)
(***************************************************************************)
Num(sign, mag6, d7) == [kind |-> "num", sign |-> sign, mag6 |-> mag6, d7 |-> d7]
NotNum(kind) == [kind |-> kind, sign |-> 1, mag6 |-> 0, d7 |-> 0]

\* precision=6 at both call sites
Precision == 6

\* the same with one digit less of precision
ScaleAndRound_precision5(c, precision) ==
    LET u == c.mag6 * 10 + c.d7
        d == Pow(10, 7 - (precision - 1))
        q == u \div d
        r == u % d
        m == IF 2 * r < d THEN q
             ELSE IF 2 * r > d THEN q + 1
             ELSE IF q % 2 = 0 THEN q ELSE q + 1
    IN  c.sign * m

\* int(round(x * 10**precision)): Python 3 rounds half to even. On the
\* seeds below the float product rounds as the decimal does.
ScaleAndRound(c, precision) ==
    LET u == c.mag6 * 10 + c.d7
        d == Pow(10, 7 - precision)
        q == u \div d
        r == u % d
        m == IF 2 * r < d THEN q
             ELSE IF 2 * r > d THEN q + 1
             ELSE IF q % 2 = 0 THEN q ELSE q + 1
    IN  c.sign * m

RECURSIVE ShiftRight8(_, _)
ShiftRight8(n, k) == IF k = 0 THEN n ELSE ShiftRight8(n, k - 1) \div 256

\* struct.pack("!q", n): eight bytes, big-endian, two's complement
pack_q(n) == [i \in 1..8 |-> ShiftRight8(n, 8 - i) % 256]

\* The exception the loop body raises on the pair (x, y), "none" if it packs.
PairError(x, y) ==
    IF x.kind = "nan" THEN "ValueError"
    ELSE IF x.kind = "inf" THEN "OverflowError"
    ELSE IF y.kind = "nan" THEN "ValueError"
    ELSE IF y.kind = "inf" THEN "OverflowError"
    ELSE IF x.kind = "huge" \/ y.kind = "huge" THEN "struct.error"
    ELSE "none"

RECURSIVE coords_to_bytes(_, _)
coords_to_bytes(coords, precision) ==
    IF coords = << >> THEN [err |-> "none", bytes |-> << >>]
    ELSE LET x == coords[1][1]
             y == coords[1][2]
         IN  IF PairError(x, y) # "none"
             THEN [err |-> PairError(x, y), bytes |-> << >>]
             ELSE LET rest == coords_to_bytes(Tail(coords), precision)
                  IN  IF rest.err # "none" THEN rest
                      ELSE [err |-> "none",
                            bytes |-> pack_q(ScaleAndRound(x, precision))
                                      \o pack_q(ScaleAndRound(y, precision))
                                      \o rest.bytes]

(***************************************************************************)
(* Hashing and key derivation: terms over the input.                       *)
(***************************************************************************)
sha256(data) == [alg |-> "sha256", data |-> data]

derive_keys(seed, info, length) ==
    [alg |-> "hkdf-sha256", ikm |-> seed, info |-> info, length |-> length]

NoKey == [alg |-> "none"]

\* Python's None, and a value that is not None
None == [some |-> FALSE, v |-> << >>]
Some(x) == [some |-> TRUE, v |-> x]

\* the seed hashed from the coordinates alone
MixSeed_without_salt(coord_b, salt) == sha256(coord_b)

\* seed = sha256(coord_b + salt), at both call sites
MixSeed(coord_b, salt) == sha256(coord_b \o salt)

(***************************************************************************)
(* AES-GCM (cryptography.hazmat AESGCM) as the ideal AEAD over a table of  *)
(* sealings.                                                               *)
(***************************************************************************)
Sealing(key, n, aad, ct, pt) == [key |-> key, nonce |-> n, aad |-> aad, ct |-> ct, pt |-> pt]

\* The outputs AESGCM(key).encrypt(n, pt, aad) may have: len(pt) + 16 bytes,
\* the same as before for the same arguments, otherwise bytes (one of d
\* values) that open to nothing else under (key, n, aad).
AESGCM_encrypt(key, n, pt, aad, table, d) ==
    IF \E e \in table : e.key = key /\ e.nonce = n /\ e.aad = aad /\ e.pt = pt
    THEN {e.ct : e \in {f \in table : f.key = key /\ f.nonce = n /\ f.aad = aad /\ f.pt = pt}}
    ELSE {ct \in Draws(Len(pt) + 16, d) :
            ~ \E e \in table : e.key = key /\ e.nonce = n /\ e.aad = aad /\ e.ct = ct}

\* AESGCM(key).decrypt(n, ct, aad): the plaintext, or the exception raised:
\* ValueError for a nonce outside 8..128 bytes, InvalidTag for data shorter
\* than the 16-byte tag or not sealed under (key, n, aad).
AESGCM_decrypt(key, n, ct, aad, table) ==
    IF Len(n) < 8 \/ Len(n) > 128 THEN [kind |-> "ValueError", pt |-> << >>]
    ELSE IF Len(ct) < 16 THEN [kind |-> "InvalidTag", pt |-> << >>]
    ELSE IF \E e \in table : e.key = key /\ e.nonce = n /\ e.aad = aad /\ e.ct = ct
    THEN [kind |-> "ok",
          pt |-> (CHOOSE e \in table :
                     e.key = key /\ e.nonce = n /\ e.aad = aad /\ e.ct = ct).pt]
    ELSE [kind |-> "InvalidTag", pt |-> << >>]

(***************************************************************************)
(* src/ABB.py: encrypt_with_coords and decrypt_with_coords.                *)
(***************************************************************************)
\* encrypt_with_coords returning nonce + salt + ct
encrypt_with_coords_nonce_first(coords, plaintext, associated_data, salt, n, table, d) ==
    LET coord_b == coords_to_bytes(coords, Precision)
    IN  IF coord_b.err # "none"
        THEN {[err |-> coord_b.err, key |-> NoKey, nonce |-> << >>, ct |-> << >>,
               packaged |-> << >>]}
        ELSE LET seed == MixSeed(coord_b.bytes, salt)
                 aes_key == derive_keys(seed, "coords->aes256", 32)
             IN  {[err |-> "none", key |-> aes_key, nonce |-> n, ct |-> ct,
                   packaged |-> n \o salt \o ct] :
                     ct \in AESGCM_encrypt(aes_key, n, plaintext, associated_data, table, d)}

\* With the salt and nonce os.urandom returned, the outcomes the call may
\* have (one per output of the AEAD, of d values): the exception raised
\* ("none" if none), the key derived, the nonce and sealed bytes of the AEAD
\* call and the value returned.
encrypt_with_coords(coords, plaintext, associated_data, salt, n, table, d) ==
    LET coord_b == coords_to_bytes(coords, Precision)
    IN  IF coord_b.err # "none"
        THEN {[err |-> coord_b.err, key |-> NoKey, nonce |-> << >>, ct |-> << >>,
               packaged |-> << >>]}
        ELSE LET seed == MixSeed(coord_b.bytes, salt)
                 aes_key == derive_keys(seed, "coords->aes256", 32)
             IN  {[err |-> "none", key |-> aes_key, nonce |-> n, ct |-> ct,
                   packaged |-> salt \o n \o ct] :
                     ct \in AESGCM_encrypt(aes_key, n, plaintext, associated_data, table, d)}

\* decrypt_with_coords opening without the associated data
decrypt_with_coords_no_aad(coords, pkg, associated_data, table) ==
    LET salt == Slice(pkg, 0, 16)
        n == Slice(pkg, 16, 28)
        ct == SliceFrom(pkg, 28)
        coord_b == coords_to_bytes(coords, Precision)
    IN  IF coord_b.err # "none"
        THEN [kind |-> coord_b.err, pt |-> << >>, key |-> NoKey, nonce |-> n, ct |-> ct]
        ELSE LET seed == MixSeed(coord_b.bytes, salt)
                 aes_key == derive_keys(seed, "coords->aes256", 32)
                 r == AESGCM_decrypt(aes_key, n, ct, << >>, table)
             IN  [kind |-> r.kind, pt |-> r.pt, key |-> aes_key, nonce |-> n, ct |-> ct]

\* decrypt_with_coords deriving with derive_keys' default info
decrypt_with_coords_default_info(coords, pkg, associated_data, table) ==
    LET salt == Slice(pkg, 0, 16)
        n == Slice(pkg, 16, 28)
        ct == SliceFrom(pkg, 28)
        coord_b == coords_to_bytes(coords, Precision)
    IN  IF coord_b.err # "none"
        THEN [kind |-> coord_b.err, pt |-> << >>, key |-> NoKey, nonce |-> n, ct |-> ct]
        ELSE LET seed == MixSeed(coord_b.bytes, salt)
                 aes_key == derive_keys(seed, "coords-kdf", 32)
                 r == AESGCM_decrypt(aes_key, n, ct, associated_data, table)
             IN  [kind |-> r.kind, pt |-> r.pt, key |-> aes_key, nonce |-> n, ct |-> ct]

\* The outcome of decrypt_with_coords: kind "ok" with the plaintext, or the
\* exception raised; and the key, nonce and sealed bytes handed to the AEAD
\* (NoKey if the call raised before deriving one).
decrypt_with_coords(coords, pkg, associated_data, table) ==
    LET salt == Slice(pkg, 0, 16)
        n == Slice(pkg, 16, 28)
        ct == SliceFrom(pkg, 28)
        coord_b == coords_to_bytes(coords, Precision)
    IN  IF coord_b.err # "none"
        THEN [kind |-> coord_b.err, pt |-> << >>, key |-> NoKey, nonce |-> n, ct |-> ct]
        ELSE LET seed == MixSeed(coord_b.bytes, salt)
                 aes_key == derive_keys(seed, "coords->aes256", 32)
                 r == AESGCM_decrypt(aes_key, n, ct, associated_data, table)
             IN  [kind |-> r.kind, pt |-> r.pt, key |-> aes_key, nonce |-> n, ct |-> ct]

(***************************************************************************)
(* src/ABB.py: the seeds of the model. XMain, YMain are the first pair of  *)
(* __main__; the others change one digit of one component, the sign, or    *)
(* are not encodable.                                                      *)
(***************************************************************************)
XMain == Num(1, 12971598, 7)
YMain == Num(1, 77594566, 0)

MainCoords == << <<XMain, YMain>>, <<Num(1, 12971600, 0), Num(1, 77594560, 0)>> >>

OnePair(x, y) == << <<x, y>> >>

GoodSeeds ==
    {OnePair(x, YMain) : x \in {XMain, Num(1, 12971598, 8), Num(1, 12971598, 3),
                                Num(1, 12971597, 7), Num(1, 12971598, 5),
                                Num(1, 12971597, 5), Num(-1, 12971598, 7)}}
    \cup {OnePair(XMain, Num(1, 77594566, 4)), MainCoords}

BadSeeds ==
    {OnePair(XMain, NotNum("nan")), OnePair(NotNum("inf"), YMain),
     OnePair(NotNum("huge"), YMain)}

Seeds == GoodSeeds \cup BadSeeds

TamperSeeds == {OnePair(XMain, YMain)}

(***************************************************************************)
(* src/ABB.py: the calls.                                                  *)
(***************************************************************************)
NoEnc == [called |-> FALSE, coords |-> << >>, pt |-> << >>, aad |-> << >>,
          salt |-> << >>, nonce |-> << >>, ct |-> << >>, key |-> NoKey, err |-> "none"]

NoDec == [called |-> FALSE, coords |-> << >>, blob |-> << >>, aad |-> << >>,
          kind |-> "none", pt |-> << >>, key |-> NoKey, nonce |-> << >>, ct |-> << >>]

CoordInit ==
    /\ enc = NoEnc
    /\ packaged = << >>
    /\ dec = NoDec
    /\ oracle = {}

\* src/GVEMPlus/ABB.py as loaded: the globals of lines 130-146
SimIdle ==
    /\ running = TRUE
    /\ state = "ask_count"
    /\ typed_text = << >>
    /\ derived_key = None
    /\ ciphertext_b64 = None
    /\ nonce = None
    /\ plaintext_hash_hex = None
    /\ raw_pool_sample = None
    /\ contours = << >>
    /\ printed = [clicked |-> FALSE, at |-> "", ok |-> FALSE, text |-> << >>]
    /\ phrase_entered = None
    /\ key_at_encrypt = None
    /\ derivations = 0

\* packaged = encrypt_with_coords(coords, plaintext, associated_data), once
EncryptCall(seeds, d) ==
    /\ ~ enc.called
    /\ \E coords \in seeds, pt \in Plaintexts, aad \in AADs,
          salt \in Draws(16, d), n \in Draws(12, d) :
          \E r \in encrypt_with_coords(coords, pt, aad, salt, n, oracle, d) :
             /\ enc' = [called |-> TRUE, coords |-> coords, pt |-> pt, aad |-> aad,
                        salt |-> IF r.err = "none" THEN salt ELSE << >>,
                        nonce |-> r.nonce, ct |-> r.ct, key |-> r.key, err |-> r.err]
             /\ packaged' = r.packaged
             /\ oracle' = IF r.err = "none"
                          THEN oracle \cup {Sealing(r.key, r.nonce, aad, r.ct, pt)}
                          ELSE oracle
    /\ UNCHANGED <<dec, simVars>>

\* recovered = decrypt_with_coords(coords, blob, associated_data), once, on
\* some bytes
DecryptCall(coords, blob, aad) ==
    /\ enc.called
    /\ enc.err = "none"
    /\ ~ dec.called
    /\ LET r == decrypt_with_coords(coords, blob, aad, oracle)
       IN  dec' = [called |-> TRUE, coords |-> coords, blob |-> blob, aad |-> aad,
                   kind |-> r.kind, pt |-> r.pt, key |-> r.key, nonce |-> r.nonce,
                   ct |-> r.ct]
    /\ UNCHANGED <<enc, packaged, oracle, simVars>>

\* the package as it was returned
DecryptPackaged(seeds) ==
    \E coords \in seeds, aad \in AADs : DecryptCall(coords, packaged, aad)

\* the package with one bit flipped
DecryptFlipped(seeds) ==
    \E coords \in seeds, aad \in AADs, j \in 1..Len(packaged), i \in 0..7 :
        DecryptCall(coords, FlipBit(packaged, j, i), aad)

\* a proper prefix of the package
DecryptTruncated(seeds) ==
    \E coords \in seeds, aad \in AADs, k \in 0..(Len(packaged) - 1) :
        DecryptCall(coords, Slice(packaged, 0, k), aad)


(***************************************************************************)
(* src/GVEMPlus/ABB.py: the measurement pool.                              *)
(* A contour is <<cx, cy, area>>: its centroid and its area (m00).         *)
(***************************************************************************)
\* lines 168-173: a contour of area below 20, or of zero m00, is skipped
IsFeature(c) == ~ (c[3] < 20) /\ ~ (c[3] = 0)

\* lines 167-175: the contours kept as features, in the order found
DetectedFeatures(cnts) == SelectSeq(cnts, IsFeature)

\* f put into s, which is sorted by area descending, behind every feature
\* of at least its area
InsertByArea(s, f) ==
    LET k == Cardinality({i \in 1..Len(s) : s[i][3] >= f[3]})
    IN  SubSeq(s, 1, k) \o <<f>> \o SubSeq(s, k + 1, Len(s))

\* f put into s, which is sorted by area ascending, behind every feature of
\* at most its area
InsertByAreaAscending(s, f) ==
    LET k == Cardinality({i \in 1..Len(s) : s[i][3] <= f[3]})
    IN  SubSeq(s, 1, k) \o <<f>> \o SubSeq(s, k + 1, Len(s))

\* the features of fs put into s one after the other, first found first;
\* s is looked at first, so that it is computed before fs is divided
RECURSIVE InsertAllByArea(_, _)
InsertAllByArea(s, fs) ==
    IF s = << >> /\ fs = << >> THEN << >>
    ELSE IF fs = << >> THEN s
    ELSE IF Len(fs) = 1 THEN InsertByArea(s, fs[1])
    ELSE LET h == Len(fs) \div 2
         IN  InsertAllByArea(InsertAllByArea(s, SubSeq(fs, 1, h)),
                             SubSeq(fs, h + 1, Len(fs)))

RECURSIVE InsertAllByAreaAscending(_, _)
InsertAllByAreaAscending(s, fs) ==
    IF s = << >> /\ fs = << >> THEN << >>
    ELSE IF fs = << >> THEN s
    ELSE IF Len(fs) = 1 THEN InsertByAreaAscending(s, fs[1])
    ELSE LET h == Len(fs) \div 2
         IN  InsertAllByAreaAscending(InsertAllByAreaAscending(s, SubSeq(fs, 1, h)),
                                      SubSeq(fs, h + 1, Len(fs)))

Reversed(s) == [i \in 1..Len(s) |-> s[Len(s) + 1 - i]]

\* sorted(features, key=area)[::-1]: equal areas come out last found first
sorted_reverse_of_ascending(fs) == Reversed(InsertAllByAreaAscending(<< >>, fs))

\* sorted(features, key=lambda x: x[2], reverse=True): a stable sort,
\* features of equal area stay in the order found
sorted_reverse(fs) == InsertAllByArea(<< >>, fs)

\* numpy int32 array .tobytes(): four bytes each, least significant first
tobytes(vec) ==
    [i \in 1..(4 * Len(vec)) |-> ShiftRight8(vec[((i - 1) \div 4) + 1], (i - 1) % 4) % 256]

\* lines 167-195 with the 64 pixel samples and the 32 bytes of os.urandom
\* drawn: the pool, the sample kept of it and the key
take_screenshot_and_process(cnts, pixels, os_random) ==
    LET features == Slice(sorted_reverse(DetectedFeatures(cnts)), 0, 128)
        vec == [i \in 1..(128 * 3) |->
                  IF (i - 1) \div 3 < Len(features)
                  THEN features[((i - 1) \div 3) + 1][((i - 1) % 3) + 1]
                  ELSE 0]
        pool == tobytes(vec) \o pixels \o os_random
    IN  [pool |-> pool, raw_pool_sample |-> Slice(pool, 0, 2048), key |-> sha256(pool)]

\* The contours of a capture: n of them in one of three patterns of areas
\* (equal areas recurring; some below the threshold of 20; growing).
Contour(i, pattern) ==
    <<i, (i * 7) % 700,
      IF pattern = 1 THEN 20 + (i % 3)
      ELSE IF pattern = 2 THEN 18 + (i % 5)
      ELSE 20 + i>>

ContourList(n, pattern) == [i \in 1..n |-> Contour(i, pattern)]

PoolContourLists == {ContourList(n, pattern) : n \in 0..MaxContours, pattern \in 1..3}

SimContourLists == {ContourList(n, 2) : n \in 0..2}

(***************************************************************************)
(* src/GVEMPlus/ABB.py: text. A str is a sequence of code points, bytes    *)
(* are as above, a base64 text is a sequence of indices into the base64    *)
(* alphabet with 64 for the padding '='.                                   *)
(***************************************************************************)
\* str.encode("utf-8"), for code points below 0x10000
RECURSIVE utf8_encode(_)
utf8_encode(text) ==
    IF text = << >> THEN << >>
    ELSE LET cp == Head(text)
             b == IF cp < 128 THEN <<cp>>
                  ELSE IF cp < 2048 THEN <<192 + (cp \div 64), 128 + (cp % 64)>>
                  ELSE <<224 + (cp \div 4096), 128 + ((cp \div 64) % 64), 128 + (cp % 64)>>
         IN  b \o utf8_encode(Tail(text))

\* bytes.decode("utf-8"): the text, or ok = FALSE for UnicodeDecodeError
RECURSIVE utf8_decode(_)
utf8_decode(bytes) ==
    IF bytes = << >> THEN [ok |-> TRUE, text |-> << >>]
    ELSE LET b == Head(bytes)
             size == IF b < 128 THEN 1
                     ELSE IF b >= 194 /\ b < 224 THEN 2
                     ELSE IF b >= 224 /\ b < 240 THEN 3
                     ELSE 0
             continued == size > 0 /\ Len(bytes) >= size
                          /\ \A k \in 2..size : bytes[k] >= 128 /\ bytes[k] < 192
             cp == IF size = 1 THEN b
                   ELSE IF size = 2 THEN (b - 192) * 64 + (bytes[2] - 128)
                   ELSE (b - 224) * 4096 + (bytes[2] - 128) * 64 + (bytes[3] - 128)
         IN  IF ~ continued THEN [ok |-> FALSE, text |-> << >>]
             ELSE LET rest == utf8_decode(SubSeq(bytes, size + 1, Len(bytes)))
                  IN  IF rest.ok THEN [ok |-> TRUE, text |-> <<cp>> \o rest.text]
                      ELSE rest

\* base64.b64encode(bytes).decode("ascii")
RECURSIVE b64encode(_)
b64encode(bytes) ==
    IF bytes = << >> THEN << >>
    ELSE IF Len(bytes) = 1
    THEN <<bytes[1] \div 4, (bytes[1] % 4) * 16, 64, 64>>
    ELSE IF Len(bytes) = 2
    THEN <<bytes[1] \div 4, (bytes[1] % 4) * 16 + (bytes[2] \div 16), (bytes[2] % 16) * 4, 64>>
    ELSE <<bytes[1] \div 4, (bytes[1] % 4) * 16 + (bytes[2] \div 16),
           (bytes[2] % 16) * 4 + (bytes[3] \div 64), bytes[3] % 64>>
         \o b64encode(SubSeq(bytes, 4, Len(bytes)))

\* base64.b64decode(text) of a padded text
RECURSIVE b64decode(_)
b64decode(text) ==
    IF Len(text) < 4 THEN << >>
    ELSE LET one == text[1] * 4 + (text[2] \div 16)
             two == (text[2] % 16) * 16 + (text[3] \div 4)
             three == (text[3] % 4) * 64 + text[4]
         IN  IF text[3] = 64 THEN <<one>>
             ELSE IF text[4] = 64 THEN <<one, two>>
             ELSE <<one, two, three>> \o b64decode(SubSeq(text, 5, Len(text)))

\* hashlib.sha256(ph).hexdigest()
sha256_hexdigest(data) == [alg |-> "sha256-hex", data |-> data]

(***************************************************************************)
(* src/GVEMPlus/ABB.py: encrypt_phrase and decrypt_ciphertext.             *)
(***************************************************************************)
\* The globals encrypt_phrase may leave (one per output of the AEAD, of d
\* values), with the 12 bytes of os.urandom drawn; written FALSE when it
\* returns at once.
encrypt_phrase(phrase, key, n, table, d) ==
    IF ~ key.some
    THEN {[written |-> FALSE, plaintext_hash_hex |-> None, nonce |-> None,
           ciphertext_b64 |-> None, sealing |-> Sealing(NoKey, << >>, << >>, << >>, << >>)]}
    ELSE LET ph == utf8_encode(phrase)
         IN  {[written |-> TRUE,
               plaintext_hash_hex |-> Some(sha256_hexdigest(ph)),
               nonce |-> Some(n),
               ciphertext_b64 |-> Some(b64encode(n \o ct)),
               sealing |-> Sealing(key.v, n, << >>, ct, ph)] :
                 ct \in AESGCM_encrypt(key.v, n, ph, << >>, table, d)}

\* decrypt_ciphertext() reading nonce = raw[:16], ct = raw[16:]
decrypt_ciphertext_nonce16(text, key, table) ==
    IF ~ text.some \/ ~ key.some THEN None
    ELSE LET raw == b64decode(text.v)
             n == Slice(raw, 0, 16)
             ct == SliceFrom(raw, 16)
             r == AESGCM_decrypt(key.v, n, ct, << >>, table)
         IN  IF r.kind # "ok" THEN None
             ELSE IF ~ utf8_decode(r.pt).ok THEN None
             ELSE Some(utf8_decode(r.pt).text)

\* decrypt_ciphertext(): the text returned, or None
decrypt_ciphertext(text, key, table) ==
    IF ~ text.some \/ ~ key.some THEN None
    ELSE LET raw == b64decode(text.v)
             n == Slice(raw, 0, 12)
             ct == SliceFrom(raw, 12)
             r == AESGCM_decrypt(key.v, n, ct, << >>, table)
         IN  IF r.kind # "ok" THEN None
             ELSE IF ~ utf8_decode(r.pt).ok THEN None
             ELSE Some(utf8_decode(r.pt).text)

(***************************************************************************)
(* src/GVEMPlus/ABB.py: the event loop, one action per event type. Events  *)
(* queued behind a QUIT in the same batch are still handled, so QUIT does  *)
(* not disable the handlers.                                               *)
(***************************************************************************)
\* event.unicode of a key press: nothing, a digit, a letter, a letter that
\* UTF-8 encodes in two bytes
Unicodes == {<< >>, <<55>>, <<97>>, <<233>>}

IsDigit(u) == u # << >> /\ \A i \in 1..Len(u) : u[i] >= 48 /\ u[i] <= 57

cryptoGlobals == <<derived_key, ciphertext_b64, nonce, plaintext_hash_hex, raw_pool_sample,
                   contours, oracle, phrase_entered, key_at_encrypt, derivations>>

\* lines 242-243
Quit ==
    /\ running
    /\ running' = FALSE
    /\ UNCHANGED <<state, typed_text, printed, cryptoGlobals, coordVars>>

\* lines 244-280: key is "RETURN", "BACKSPACE" or "OTHER"
KeyDown(key, unicode, d) ==
    /\ IF state = "ask_count"
       THEN /\ IF key = "RETURN"
               THEN \* int("") raises: the except branch
                    /\ state' = IF typed_text = << >> THEN state ELSE "running"
                    /\ typed_text' = << >>
               ELSE IF key = "BACKSPACE"
               THEN /\ typed_text' = Slice(typed_text, 0, Len(typed_text) - 1)
                    /\ state' = state
               ELSE /\ typed_text' = IF IsDigit(unicode) THEN typed_text \o unicode
                                     ELSE typed_text
                    /\ state' = state
            /\ Len(typed_text') <= MaxTyped
            /\ UNCHANGED cryptoGlobals
       ELSE IF state = "phrase_input"
       THEN IF key = "RETURN"
            THEN \E n \in Draws(12, d) :
                    \E r \in encrypt_phrase(typed_text, derived_key, n, oracle, d) :
                       /\ typed_text' = << >>
                       /\ state' = "done"
                       /\ IF r.written
                          THEN /\ plaintext_hash_hex' = r.plaintext_hash_hex
                               /\ nonce' = r.nonce
                               /\ ciphertext_b64' = r.ciphertext_b64
                               /\ oracle' = oracle \cup {r.sealing}
                          ELSE UNCHANGED <<plaintext_hash_hex, nonce, ciphertext_b64, oracle>>
                       /\ phrase_entered' = Some(typed_text)
                       /\ key_at_encrypt' = derived_key
                       /\ UNCHANGED <<derived_key, raw_pool_sample, contours, derivations>>
            ELSE /\ typed_text' = IF key = "BACKSPACE"
                                  THEN Slice(typed_text, 0, Len(typed_text) - 1)
                                  ELSE typed_text \o unicode
                 /\ Len(typed_text') <= MaxTyped
                 /\ UNCHANGED <<state, cryptoGlobals>>
       ELSE UNCHANGED <<state, typed_text, cryptoGlobals>>
    /\ UNCHANGED <<running, printed, coordVars>>

\* lines 282-296: region is the rectangle the pointer is in, "capture",
\* "decrypt" (the two do not overlap) or "elsewhere"
MouseButtonDown(region, lists, d) ==
    /\ IF region = "capture" /\ state = "running"
       THEN \E readable \in BOOLEAN, cnts \in lists,
               pixels \in Draws(64, d), os_random \in Draws(32, d) :
               LET r == take_screenshot_and_process(cnts, pixels, os_random)
               IN  /\ IF readable
                      THEN /\ derived_key' = Some(r.key)
                           /\ raw_pool_sample' = Some(r.raw_pool_sample)
                           /\ contours' = cnts
                           /\ derivations' = derivations + 1
                      ELSE UNCHANGED <<derived_key, raw_pool_sample, contours, derivations>>
                   /\ state' = "phrase_input"
                   /\ typed_text' = << >>
                   /\ UNCHANGED printed
       ELSE IF region = "decrypt" /\ state \in {"done", "phrase_input"}
       THEN LET pt == decrypt_ciphertext(ciphertext_b64, derived_key, oracle)
            IN  /\ printed' = [clicked |-> TRUE, at |-> state, ok |-> pt.some, text |-> pt.v]
                /\ UNCHANGED <<state, typed_text, derived_key, raw_pool_sample,
                               contours, derivations>>
       ELSE UNCHANGED <<state, typed_text, printed, derived_key, raw_pool_sample,
                        contours, derivations>>
    /\ UNCHANGED <<running, ciphertext_b64, nonce, plaintext_hash_hex, oracle,
                   phrase_entered, key_at_encrypt, coordVars>>

SimInit == CoordInit /\ SimIdle

SimNext ==
    \/ Quit
    \/ \E key \in {"RETURN", "BACKSPACE", "OTHER"}, unicode \in Unicodes :
          KeyDown(key, unicode, FewDraws)
    \/ \E region \in {"capture", "decrypt", "elsewhere"} :
          MouseButtonDown(region, SimContourLists, FewDraws)

SpecSim == SimInit /\ [][SimNext]_vars

\* The capture alone, from the running simulation, over the contour lists
\* up to MaxContours.
PoolInit ==
    /\ CoordInit
    /\ running = TRUE
    /\ state = "running"
    /\ typed_text = << >>
    /\ derived_key = None
    /\ ciphertext_b64 = None
    /\ nonce = None
    /\ plaintext_hash_hex = None
    /\ raw_pool_sample = None
    /\ contours = << >>
    /\ printed = [clicked |-> FALSE, at |-> "", ok |-> FALSE, text |-> << >>]
    /\ phrase_entered = None
    /\ key_at_encrypt = None
    /\ derivations = 0

PoolNext == MouseButtonDown("capture", PoolContourLists, FewDraws)

SpecPool == PoolInit /\ [][PoolNext]_vars

Init == CoordInit /\ SimIdle

Next == EncryptCall(Seeds, NumDraws) \/ DecryptPackaged(Seeds)

Spec == Init /\ [][Next]_vars

TamperNext ==
    \/ EncryptCall(TamperSeeds, FewDraws)
    \/ DecryptPackaged(TamperSeeds)
    \/ DecryptFlipped(TamperSeeds)
    \/ DecryptTruncated(TamperSeeds)

SpecTamper == Init /\ [][TamperNext]_vars

(***************************************************************************)
(* Properties of src/ABB.py.                                               *)
(***************************************************************************)
Components(coords) == {coords[p][c] : p \in 1..Len(coords), c \in 1..2}

\* every component is a finite float
Finite(coords) == \A x \in Components(coords) : x.kind \in {"num", "huge"}

\* every component scales to a signed 64-bit integer
Encodable(coords) == \A x \in Components(coords) : x.kind = "num"

\* the decrypt call had the arguments of the encrypt call and its package
SameCall ==
    /\ dec.called
    /\ dec.coords = enc.coords
    /\ dec.aad = enc.aad
    /\ dec.blob = packaged

RoundTripOf(ok) ==
    (enc.called /\ ok)
        => /\ enc.err = "none"
           /\ SameCall => (dec.kind = "ok" /\ dec.pt = enc.pt)

DiffPositions(b, p) == {j \in 1..Len(p) : b[j] # p[j]}

\* b is p with exactly one bit flipped
OneBitFlipped(b, p) ==
    /\ Len(b) = Len(p)
    /\ Cardinality(DiffPositions(b, p)) = 1
    /\ \A j \in DiffPositions(b, p) : \E i \in 0..7 : b[j] = FlipBitOfByte(p[j], i)

\* C2: decrypting a package with any single bit flipped, with the seed and
\* associated data of the encryption, fails with the AEAD's authentication
\* error (InvalidTag) and returns no plaintext.
C2_TamperDetection ==
    (/\ dec.called
     /\ OneBitFlipped(dec.blob, packaged)
     /\ dec.coords = enc.coords
     /\ dec.aad = enc.aad)
        => (dec.kind = "InvalidTag" /\ dec.pt = << >>)

\* a bit of the salt field was flipped and the decryption failed
C2_Witness ==
    /\ dec.called
    /\ OneBitFlipped(dec.blob, packaged)
    /\ DiffPositions(dec.blob, packaged) \subseteq 1..16
    /\ dec.coords = enc.coords
    /\ dec.aad = enc.aad
    /\ dec.kind = "InvalidTag"

\* C3: decrypting the package with the seed of the encryption but other
\* associated data fails with InvalidTag, the key and nonce being those of
\* the encryption.
C3_AadBinding ==
    (/\ dec.called
     /\ dec.blob = packaged
     /\ dec.coords = enc.coords
     /\ dec.aad # enc.aad)
        => (dec.kind = "InvalidTag" /\ dec.key = enc.key /\ dec.nonce = enc.nonce)

C3_Witness ==
    /\ dec.called
    /\ dec.blob = packaged
    /\ dec.coords = enc.coords
    /\ enc.aad = << >>
    /\ dec.aad = Header
    /\ dec.kind = "InvalidTag"

\* C4 as stated: decrypting 27 bytes or fewer fails as MalformedPackage
\* before any key is derived, and 28 bytes are split into salt, nonce and
\* (empty) sealed part and then fail authentication.
C4_MinimumPackageLength ==
    dec.called
        => /\ Len(dec.blob) <= 27 => (dec.kind = "MalformedPackage" /\ dec.key = NoKey)
           /\ Len(dec.blob) = 28
                 => (dec.kind = "InvalidTag" /\ dec.nonce = SubSeq(dec.blob, 17, 28)
                     /\ dec.ct = << >>)

\* the components in which two seeds of the same shape differ
DiffComponents(s, t) ==
    {pc \in (1..Len(s)) \X (1..2) : s[pc[1]][pc[2]] # t[pc[1]][pc[2]]}

\* t is s with exactly one component changed
OneComponentChanged(s, t) ==
    /\ Len(s) = Len(t)
    /\ Encodable(s)
    /\ Encodable(t)
    /\ Cardinality(DiffComponents(s, t)) = 1

\* that component, in s and in t
Before(s, t) == LET pc == CHOOSE q \in DiffComponents(s, t) : TRUE IN s[pc[1]][pc[2]]
After(s, t) == LET pc == CHOOSE q \in DiffComponents(s, t) : TRUE IN t[pc[1]][pc[2]]

\* only the 7th decimal digit differs
Digit7Changed(x, y) == x.sign = y.sign /\ x.mag6 = y.mag6 /\ x.d7 # y.d7

\* ... and both digits are below 5, or both above
Digit7ChangedSameSide(x, y) ==
    /\ Digit7Changed(x, y)
    /\ (x.d7 < 5 /\ y.d7 < 5) \/ (x.d7 > 5 /\ y.d7 > 5)

\* ... and one digit is below 5, the other above
Digit7ChangedAcross(x, y) ==
    /\ Digit7Changed(x, y)
    /\ (x.d7 < 5 /\ y.d7 > 5) \/ (x.d7 > 5 /\ y.d7 < 5)

\* only the 6th decimal digit differs
Digit6Changed(x, y) ==
    /\ x.sign = y.sign
    /\ x.d7 = y.d7
    /\ x.mag6 \div 10 = y.mag6 \div 10
    /\ x.mag6 % 10 # y.mag6 % 10

\* ... and the 7th digit is not 5
Digit6ChangedNoTie(x, y) == Digit6Changed(x, y) /\ x.d7 # 5

\* the package decrypted with the associated data of the encryption
SamePackageAndAad == dec.called /\ dec.blob = packaged /\ dec.aad = enc.aad

SeedAccepted ==
    /\ coords_to_bytes(dec.coords, Precision) = coords_to_bytes(enc.coords, Precision)
    /\ dec.key = enc.key
    /\ dec.kind = "ok"
    /\ dec.pt = enc.pt

SeedRejected == dec.key # enc.key /\ dec.kind = "InvalidTag"

\* the seed of the decryption is that of the encryption with one component
\* changed, and that one as `how` tells: "7", "7same", "7across", "6", "6notie"
SeedChanged(how) ==
    /\ OneComponentChanged(enc.coords, dec.coords)
    /\ LET x == Before(enc.coords, dec.coords)
           y == After(enc.coords, dec.coords)
       IN  IF how = "7" THEN Digit7Changed(x, y)
           ELSE IF how = "7same" THEN Digit7ChangedSameSide(x, y)
           ELSE IF how = "7across" THEN Digit7ChangedAcross(x, y)
           ELSE IF how = "6" THEN Digit6Changed(x, y)
           ELSE Digit6ChangedNoTie(x, y)

\* C5 as stated: a seed changed in the 7th decimal digit of one component
\* encodes and decrypts as the original, one changed in the 6th digit
\* derives another key and fails with InvalidTag.
C5_SeedSensitivity ==
    SamePackageAndAad
        => /\ SeedChanged("7") => SeedAccepted
           /\ SeedChanged("6") => SeedRejected

\* C5 amended: a change of the 7th digit within 0..4 or within 6..9 leaves
\* the encoding and the key unchanged and decryption succeeds; one from
\* below 5 to above 5 or back changes the key and decryption fails; a
\* change of the 6th digit changes the key and decryption fails when the
\* 7th digit is not 5.
C5_SeedSensitivityRounded ==
    SamePackageAndAad
        => /\ SeedChanged("7same") => SeedAccepted
           /\ SeedChanged("7across") => SeedRejected
           /\ SeedChanged("6notie") => SeedRejected

C5_Witness ==
    /\ SamePackageAndAad
    /\ SeedChanged("7same")
    /\ SeedAccepted

\* C6: the package is 16 + 12 + len(P) + 16 bytes: the salt hashed into the
\* key, the nonce handed to the AEAD, the AEAD's output; decrypt_with_coords
\* reads the same three fields.
C6_ContainerLayout ==
    /\ (enc.called /\ enc.err = "none")
          => /\ Len(packaged) = 16 + 12 + Len(enc.pt) + 16
             /\ SubSeq(packaged, 1, 16) = enc.salt
             /\ enc.key = derive_keys(sha256(coords_to_bytes(enc.coords, Precision).bytes
                                             \o SubSeq(packaged, 1, 16)),
                                      "coords->aes256", 32)
             /\ SubSeq(packaged, 17, 28) = enc.nonce
             /\ SubSeq(packaged, 29, Len(packaged)) = enc.ct
             /\ Sealing(enc.key, enc.nonce, enc.aad, enc.ct, enc.pt) \in oracle
    /\ (dec.called /\ dec.key # NoKey /\ Len(dec.blob) >= 28)
          => /\ dec.key = derive_keys(sha256(coords_to_bytes(dec.coords, Precision).bytes
                                             \o SubSeq(dec.blob, 1, 16)),
                                      "coords->aes256", 32)
             /\ dec.nonce = SubSeq(dec.blob, 17, 28)
             /\ dec.ct = SubSeq(dec.blob, 29, Len(dec.blob))

\* b"hello" was encrypted into 49 bytes and the package decrypted
C6_Witness ==
    /\ enc.called
    /\ enc.err = "none"
    /\ enc.pt = Hello
    /\ Len(packaged) = 49
    /\ dec.called
    /\ dec.key = enc.key

(***************************************************************************)
(* Properties of src/GVEMPlus/ABB.py.                                      *)
(***************************************************************************)
captured == state # "running" /\ state # "ask_count"

\* C7 as stated: a seed with a NaN or infinite coordinate, and a capture
\* that found no feature, fail: no key is derived, nothing is encrypted.
C7_InvalidSeed ==
    /\ (enc.called /\ ~ Finite(enc.coords))
          => (enc.err # "none" /\ enc.key = NoKey /\ packaged = << >>)
    /\ (captured /\ DetectedFeatures(contours) = << >>)
          => (~ derived_key.some /\ derivations = 0)

\* the 32-bit integer at index w (from 0) of the pool sample
PoolWord(sample, w) ==
    sample[4 * w + 1] + 256 * sample[4 * w + 2] + 65536 * sample[4 * w + 3]
        + 16777216 * sample[4 * w + 4]

\* the place of feature i among fs by area descending, earlier found first
Rank(fs, i) ==
    1 + Cardinality({j \in 1..Len(fs) :
                        fs[j][3] > fs[i][3] \/ (fs[j][3] = fs[i][3] /\ j < i)})

\* C9: the pool starts with 128 slots of three 32-bit integers: the
\* features of the 128 greatest areas in descending order, equal areas in
\* the order found, then zeros; its length does not depend on the number
\* of features.
C9_PoolEncoding ==
    raw_pool_sample.some
        => LET fs == DetectedFeatures(contours)
               sample == raw_pool_sample.v
           IN  /\ Len(sample) = 128 * 3 * 4 + 64 + 32
               /\ \A i \in 1..Len(fs) :
                     Rank(fs, i) <= 128
                        => \A c \in 1..3 :
                              PoolWord(sample, (Rank(fs, i) - 1) * 3 + (c - 1)) = fs[i][c]
               /\ \A slot \in (Min(Len(fs), 128) + 1)..128 :
                     \A c \in 1..3 : PoolWord(sample, (slot - 1) * 3 + (c - 1)) = 0

\* more than 128 features, some of equal area, were encoded
C9_Witness ==
    /\ raw_pool_sample.some
    /\ Len(DetectedFeatures(contours)) > 128
    /\ \E i, j \in 1..Len(contours) : i # j /\ contours[i][3] = contours[j][3]

\* DECRYPT was clicked after the phrase was entered
DecryptedWhenDone == printed.clicked /\ printed.at = "done"

KeyDerivedOnceAndKept ==
    /\ derivations <= 1
    /\ derived_key.some => (raw_pool_sample.some /\ derived_key.v = sha256(raw_pool_sample.v))
    /\ phrase_entered.some => key_at_encrypt = derived_key

\* C10 as stated: once the state is 'done', DECRYPT returns the phrase that
\* was entered; the key is derived at most once and is the same at the
\* encryption and at every later decryption.
C10_DecryptReturnsPhrase ==
    /\ DecryptedWhenDone => (printed.ok /\ printed.text = phrase_entered.v)
    /\ KeyDerivedOnceAndKept

\* C10 amended: ... DECRYPT returns the phrase that was entered if the
\* capture derived a key, and None if the screenshot could not be read (no
\* key was derived and the phrase was not encrypted); the key is derived at
\* most once and is the same at the encryption and at every later
\* decryption.
C10_DecryptReturnsPhraseIfKey ==
    /\ DecryptedWhenDone
          => IF derived_key.some
             THEN printed.ok /\ printed.text = phrase_entered.v
             ELSE ~ printed.ok /\ ~ ciphertext_b64.some
    /\ KeyDerivedOnceAndKept

C10_Witness ==
    /\ DecryptedWhenDone
    /\ derived_key.some
    /\ printed.ok
    /\ printed.text = <<97, 233>>
    /\ phrase_entered = Some(<<97, 233>>)

====
